---- MODULE Spec2Model ----
(***************************************************************************)
(* Transcript/metadata cache of the YouTube API server                     *)
(* (app/utils/transcript_cache.py).                                        *)
(*                                                                         *)
(* MemoryCacheBackend is an OrderedDict key -> (value, expiry); it is      *)
(* modelled as the sequence of its items, oldest (least recently used)     *)
(* first.  time.time() is the variable now, in whole ticks.                *)
(*                                                                         *)
(* RedisCacheBackend talks to a server, the set of its entries, over a     *)
(* connection that can fail at any command.  TranscriptCache is the facade *)
(* over one of the two, and YouTubeTools._fetch_transcript                 *)
(* (app/utils/youtube_tools.py) the requests that read and fill it.        *)
(***************************************************************************)
EXTENDS Integers, Sequences, FiniteSets, TLC

\* ------------------------------------------------------------- bounds
\* Largest max_size a MemoryCacheBackend is constructed with.
MaxSize == 2
\* The clock runs from 0 to MaxTime.
MaxTime == 2
\* Longest language list handed to _make_transcript_key.
MaxLangs == 3
\* Keys a SCAN call visits (count=100 in the code, scaled down with the
\* keyspace).
ScanCount == 2
\* A failing connection to the store fails after at most this many commands
\* of one call.
MaxAfter == 2
\* The clock of the facade runs from 0 to FacadeMaxTime.
FacadeMaxTime == 1

\* One key more than the largest capacity, so that a full cache can always
\* be offered a key it does not hold.
KeyNames == <<"A", "B", "C", "D", "E", "F">>
Keys == {KeyNames[i] : i \in 1..(MaxSize + 1)}
Values == {"v1", "v2"}
\* CACHE_TTL_SECONDS is a plain int: the one ttl every write of a cache gets.
Ttls == {-1, 1}
\* Python's None.
None == "None"
\* The key of a call that takes none.
NoKey == ""

VARIABLES
    cache,      \* MemoryCacheBackend._cache: <<[key, value, expiry], ...>>
    max_size,   \* MemoryCacheBackend.max_size
    ttl_seconds,\* TranscriptCache.ttl_seconds, the ttl of every set
    now,        \* time.time()
    last,       \* history: the last call made to the backend, what it met
                \*   and what it returned
    setExpiry,  \* history: per stored key, (time of its last set) + ttl
    useOrder,   \* history: stored keys by last successful get or set
    setRun,     \* history: the sets made since the cache was empty, while
                \*   they were all sets of distinct keys
    runOK,      \* history: setRun is such a run
    req,        \* the arguments of a _make_transcript_key call
    key,        \* what that call returned
    store,      \* the Redis server's keyspace: full key -> [val, ttl, exp]
    connected,  \* a RedisCacheBackend has been constructed
    rcall,      \* history: the last call made to the RedisCacheBackend
    facade,     \* TranscriptCache: enabled, backend_type, _backend
    fcall,      \* history: the last call made to the TranscriptCache
    tasks,      \* the requests running YouTubeTools._fetch_transcript
    lastWrite,  \* history: the last cache.set made by a request
    mtasks,     \* the requests running YouTubeTools.get_video_data
    eq          \* history: what the two backends returned to the same call

memVars == <<cache, max_size, ttl_seconds, now, last, setExpiry, useOrder, setRun, runOK>>
keyVars == <<req, key>>
histVars == <<last, setExpiry, useOrder, setRun, runOK>>
redisVars == <<store, connected, rcall>>
facadeVars == <<facade, fcall>>
fetchVars == <<tasks, lastWrite, mtasks>>
redisFrame == <<cache, max_size, last, setExpiry, useOrder, setRun, runOK, req, key,
                facade, fcall, tasks, lastWrite, mtasks, eq>>
extVars == <<store, connected, rcall, facade, fcall, tasks, lastWrite, mtasks, eq>>
vars == <<cache, max_size, ttl_seconds, now, last, setExpiry, useOrder, setRun, runOK, req, key,
          store, connected, rcall, facade, fcall, tasks, lastWrite, mtasks, eq>>

\* ------------------------------------------- MemoryCacheBackend, pure

\* The keys of the OrderedDict.
StoredKeys(c) == {c[i].key : i \in DOMAIN c}

\* self._cache[key]
Entry(c, k) == c[CHOOSE i \in DOMAIN c : c[i].key = k]

\* del self._cache[key]
Remove(c, k) == SelectSeq(c, LAMBDA e : e.key # k)

\* mutant: move_to_end left out
MoveToEndOff(c, k) == c

\* self._cache.move_to_end(key)
MoveToEnd(c, k) == Append(Remove(c, k), Entry(c, k))

\* mutant: popitem(last=True), the newest entry goes
PopNewest(c) == SubSeq(c, 1, Len(c) - 1)

\* self._cache.popitem(last=False)
PopOldest(c) == Tail(c)

\* mutant: no eviction
EvictLoopOff(c, n) == c

\* while len(self._cache) >= self.max_size: self._cache.popitem(last=False)
\* popitem on an empty dict raises KeyError, which ends the loop (and set).
RECURSIVE EvictLoop(_, _)
EvictLoop(c, n) ==
    IF Len(c) >= n /\ c # <<>> THEN EvictLoop(PopOldest(c), n) ELSE c

\* set raises KeyError exactly when the loop reaches the empty dict with
\* 0 >= max_size.
MemSetRaises(n) == 0 >= n

\* mutant: the expiry is the ttl itself, time.time() forgotten
ExpiryNoClock(t, ttl) == ttl

\* expiry = time.time() + ttl_seconds
Expiry(t, ttl) == t + ttl

\* mutant: the expiry check left out
ExpiredOff(t, e) == FALSE

\* time.time() > expiry
Expired(t, e) == t > e.expiry

\* MemoryCacheBackend.get: the value returned.
MemGetResult(c, t, k) ==
    IF k \notin StoredKeys(c) THEN None
    ELSE IF Expired(t, Entry(c, k)) THEN None
    ELSE Entry(c, k).value

\* mutant: a hit also renews the entry's expiry (sliding expiration)
MemGetCacheSliding(c, t, k) ==
    IF k \notin StoredKeys(c) THEN c
    ELSE IF Expired(t, Entry(c, k)) THEN Remove(c, k)
    ELSE Append(Remove(c, k), [Entry(c, k) EXCEPT !.expiry = @ + 1])

\* mutant: an expired entry is reported absent but left in the dict
MemGetCacheKeepExpired(c, t, k) ==
    IF k \notin StoredKeys(c) THEN c
    ELSE IF Expired(t, Entry(c, k)) THEN c
    ELSE MoveToEnd(c, k)

\* mutant: a miss on an absent key makes room by dropping the oldest entry
MemGetCacheMissPops(c, t, k) ==
    IF k \notin StoredKeys(c) THEN (IF c = <<>> THEN c ELSE Tail(c))
    ELSE IF Expired(t, Entry(c, k)) THEN Remove(c, k)
    ELSE MoveToEnd(c, k)

\* MemoryCacheBackend.get: the dict it leaves.
MemGetCache(c, t, k) ==
    IF k \notin StoredKeys(c) THEN c
    ELSE IF Expired(t, Entry(c, k)) THEN Remove(c, k)
    ELSE MoveToEnd(c, k)

\* mutant: an existing key is assigned in place, not removed first
MemSetInPlace(c, t, k, v, ttl, n) ==
    LET e  == [key |-> k, value |-> v, expiry |-> Expiry(t, ttl)]
        c2 == EvictLoop(c, n)
    IN  IF MemSetRaises(n) THEN c2
        ELSE IF k \in StoredKeys(c2)
             THEN [i \in DOMAIN c2 |-> IF c2[i].key = k THEN e ELSE c2[i]]
             ELSE Append(c2, e)

\* mutant: the eviction loop runs before the existing key is removed
MemSetEvictFirst(c, t, k, v, ttl, n) ==
    LET c1 == EvictLoop(c, n)
        c2 == IF k \in StoredKeys(c1) THEN Remove(c1, k) ELSE c1
    IN  IF MemSetRaises(n) THEN c2
        ELSE Append(c2, [key |-> k, value |-> v, expiry |-> Expiry(t, ttl)])

\* mutant: entries past their expiry are dropped before the eviction loop
MemSetPurgesExpired(c, t, k, v, ttl, n) ==
    LET c1 == IF k \in StoredKeys(c) THEN Remove(c, k) ELSE c
        c2 == EvictLoop(SelectSeq(c1, LAMBDA e : ~Expired(t, e)), n)
    IN  IF MemSetRaises(n) THEN c2
        ELSE Append(c2, [key |-> k, value |-> v, expiry |-> Expiry(t, ttl)])

\* mutant: the entry of an existing key is not removed before the insertion
MemSetNoRemove(c, t, k, v, ttl, n) ==
    LET c2 == EvictLoop(c, n)
    IN  IF MemSetRaises(n) THEN c2
        ELSE Append(c2, [key |-> k, value |-> v, expiry |-> Expiry(t, ttl)])

\* MemoryCacheBackend.set: the dict it leaves.
MemSet(c, t, k, v, ttl, n) ==
    LET c1 == IF k \in StoredKeys(c) THEN Remove(c, k) ELSE c
        c2 == EvictLoop(c1, n)
    IN  IF MemSetRaises(n) THEN c2
        ELSE Append(c2, [key |-> k, value |-> v, expiry |-> Expiry(t, ttl)])

\* MemoryCacheBackend.delete
MemDelete(c, k) == IF k \in StoredKeys(c) THEN Remove(c, k) ELSE c

\* mutant: clear drops only the oldest entry
MemClearOldest(c) == IF c = <<>> THEN c ELSE Tail(c)

\* MemoryCacheBackend.clear
MemClear(c) == <<>>

\* mutant: size only tells an empty dict from a non-empty one
MemSizeNonEmpty(c) == IF c = <<>> THEN 0 ELSE 1

\* MemoryCacheBackend.size
MemSize(c) == Len(c)

\* ------------------------------------------------------- history

\* A call: op(key, value) returned result.  how says what the call met, by
\* the history and not by the dict's own bookkeeping:
\*   get: "absent", "expired" (now is past setExpiry[key]) or "fresh";
\*        value is what a set of the same key wrote in the call just
\*        before, at the same instant (None if the call before was no such set);
\*   set: "update" (key was stored), "insert" (room left), "evict" (a key
\*        went), "evict-read" (a key went that was written after one that
\*        stayed), "raise" (KeyError);
\*   clear: "nonempty" or "empty".
Call(op, k, v, res, how) ==
    [op |-> op, key |-> k, value |-> v, result |-> res, how |-> how]

KeySeq(c) == [i \in DOMAIN c |-> c[i].key]

EntrySet(c) == {c[i] : i \in DOMAIN c}

\* s without the keys that are not in S
Restrict(s, S) == SelectSeq(s, LAMBDA k : k \in S)

\* k as the last element of s
Touch(s, k) == Append(SelectSeq(s, LAMBDA x : x # k), k)

\* By the history: k is stored and the current time is past the expiry
\* instant of its last set.
PastExpiry(k) == k \in DOMAIN setExpiry /\ now > setExpiry[k]

\* By the history: k is stored and not past its expiry instant.
Fresh(k) == k \in DOMAIN setExpiry /\ now <= setExpiry[k]

\* The history variables after a call that leaves the dict c2; used is the
\* key the call got or set successfully (NoKey if none), exp its expiry
\* instant when the call was a set.
History(c2, used, isSet, exp) ==
    /\ setExpiry' = [k \in StoredKeys(c2) |->
            IF isSet /\ k = used THEN exp ELSE setExpiry[k]]
    /\ useOrder' = Restrict(IF used = NoKey THEN useOrder ELSE Touch(useOrder, used),
                            StoredKeys(c2))

\* ------------------------------------------- MemoryCacheBackend, calls

Get(k) ==
    LET res == MemGetResult(cache, now, k)
        c2  == MemGetCache(cache, now, k)
        how == IF k \notin DOMAIN setExpiry THEN "absent"
               ELSE IF PastExpiry(k) THEN "expired" ELSE "fresh"
        written == IF last.op = "set" /\ last.key = k /\ last.how # "raise"
                   THEN last.value ELSE None
    IN  /\ cache' = c2
        /\ last' = Call("get", k, written, res, how)
        /\ History(c2, IF res = None THEN NoKey ELSE k, FALSE, 0)
        /\ setRun' = <<>>
        /\ runOK' = (c2 = <<>>)
        /\ UNCHANGED <<max_size, ttl_seconds, now, req, key, extVars>>

Set(k, v) ==
    LET c2 == MemSet(cache, now, k, v, ttl_seconds, max_size)
        raised == MemSetRaises(max_size)
        gone == (StoredKeys(cache) \ StoredKeys(c2)) \ {k}
        stay == (StoredKeys(cache) \cap StoredKeys(c2)) \ {k}
        how == IF raised THEN "raise"
               ELSE IF k \in DOMAIN setExpiry THEN "update"
               ELSE IF gone = {} THEN "insert"
               ELSE IF \E g \in gone, s \in stay : setExpiry[s] < setExpiry[g]
                    THEN "evict-read"
               ELSE "evict"
        distinct == runOK /\ ~raised /\ \A i \in DOMAIN setRun : setRun[i].key # k
    IN  /\ cache' = c2
        /\ last' = Call("set", k, v, IF raised THEN "KeyError" ELSE None, how)
        /\ History(c2, IF raised THEN NoKey ELSE k, TRUE, now + ttl_seconds)
        /\ setRun' = IF distinct THEN Append(setRun, [key |-> k, value |-> v]) ELSE <<>>
        /\ runOK' = distinct
        /\ UNCHANGED <<max_size, ttl_seconds, now, req, key, extVars>>

Delete(k) ==
    LET c2 == MemDelete(cache, k)
    IN  /\ cache' = c2
        /\ last' = Call("delete", k, None, None, "")
        /\ History(c2, NoKey, FALSE, 0)
        /\ setRun' = <<>>
        /\ runOK' = (c2 = <<>>)
        /\ UNCHANGED <<max_size, ttl_seconds, now, req, key, extVars>>

Clear ==
    LET c2 == MemClear(cache)
    IN  /\ cache' = c2
        /\ last' = Call("clear", NoKey, None, None,
                        IF cache = <<>> THEN "empty" ELSE "nonempty")
        /\ History(c2, NoKey, FALSE, 0)
        /\ setRun' = <<>>
        /\ runOK' = (c2 = <<>>)
        /\ UNCHANGED <<max_size, ttl_seconds, now, req, key, extVars>>

Size ==
    /\ last' = Call("size", NoKey, None, MemSize(cache), "")
    /\ UNCHANGED <<cache, max_size, ttl_seconds, now, setExpiry, useOrder, setRun, runOK, req, key, extVars>>

\* time passes between two calls
Tick ==
    /\ now < MaxTime
    /\ now' = now + 1
    /\ last' = Call("tick", NoKey, None, None, "")
    /\ UNCHANGED <<cache, max_size, ttl_seconds, setExpiry, useOrder, setRun, runOK, req, key, extVars>>

\* ------------------------------ TranscriptCache._make_transcript_key
\* A str is the sequence of its code points.

\* "transcript:"
TranscriptPrefix == <<116, 114, 97, 110, 115, 99, 114, 105, 112, 116, 58>>
\* "en", "es", "fr"
LangEn == <<101, 110>>
LangEs == <<101, 115>>
LangFr == <<102, 114>>
LangCodes == {LangEn, LangEs, LangFr}
\* "X", "Y"
VideoIds == {<<88>>, <<89>>}

\* Optional[List[str]]: <<>> is None, <<l>> is the list l.
NoLangs == <<>>
Some(l) == <<l>>
LangLists == UNION {[1..n -> LangCodes] : n \in 0..MaxLangs}

\* a < b on str: by code point, a proper prefix first.
RECURSIVE StrLess(_, _)
StrLess(a, b) ==
    IF a = <<>> THEN b # <<>>
    ELSE IF b = <<>> THEN FALSE
    ELSE IF a[1] # b[1] THEN a[1] < b[1]
    ELSE StrLess(Tail(a), Tail(b))

\* x put into the sorted list s, after the elements equal to it.
RECURSIVE Insert(_, _)
Insert(x, s) ==
    IF s = <<>> THEN <<x>>
    ELSE IF StrLess(x, s[1]) THEN <<x>> \o s
    ELSE <<s[1]>> \o Insert(x, Tail(s))

\* mutant: the list is joined in the order given
SortedOff(l) == l

\* sorted(languages): a stable sort by <.
RECURSIVE Sorted(_)
Sorted(l) ==
    IF l = <<>> THEN <<>>
    ELSE Insert(l[Len(l)], Sorted(SubSeq(l, 1, Len(l) - 1)))

\* sep.join(l)
RECURSIVE Join(_, _)
Join(sep, l) ==
    IF l = <<>> THEN <<>>
    ELSE IF Len(l) = 1 THEN l[1]
    ELSE l[1] \o sep \o Join(sep, Tail(l))

\* "if languages": neither None nor the empty list.
Truthy(languages) == languages # NoLangs /\ languages[1] # <<>>

\* mutant: every language list gets the key of "en"
MakeTranscriptKeyNoLangs(video_id, languages) ==
    TranscriptPrefix \o video_id \o <<58>> \o LangEn

\* TranscriptCache._make_transcript_key
MakeTranscriptKey(video_id, languages) ==
    LET lang_str == IF Truthy(languages)
                    THEN Join(<<44>>, Sorted(languages[1]))
                    ELSE LangEn
    IN  TranscriptPrefix \o video_id \o <<58>> \o lang_str

NoRequest == [video_id |-> <<>>, languages |-> NoLangs]

\* A caller picks the arguments of its next call.
Request(v, l) ==
    /\ req' = [video_id |-> v, languages |-> l]
    /\ key' = <<>>
    /\ UNCHANGED <<memVars, extVars>>

\* The call is made.
MakeKey ==
    /\ req # NoRequest
    /\ key = <<>>
    /\ key' = MakeTranscriptKey(req.video_id, req.languages)
    /\ UNCHANGED <<req, cache, max_size, ttl_seconds, now, last, setExpiry, useOrder, setRun, runOK, extVars>>

\* ------------------------------------------------- RedisCacheBackend
\* The Redis server is the set of its entries [key, val, ttl, exp]: ttl says
\* whether the key has an expiry, exp is when.  A stored text is
\* <<format, payload>>.

\* "ytcache:"
RedisPrefix == <<121, 116, 99, 97, 99, 104, 101, 58>>

\* RedisCacheBackend._make_key
RedisMakeKey(k) == RedisPrefix \o k

\* mutant: the scan pattern is "*"
MatchesAny(fk) == TRUE

\* the glob f"{self._prefix}*" on a key of the store
MatchesPrefix(fk) ==
    /\ Len(fk) >= Len(RedisPrefix)
    /\ SubSeq(fk, 1, Len(RedisPrefix)) = RedisPrefix

\* json.dumps / json.loads; text another program wrote need not be JSON.
Dumps(v) == <<"json", v>>
LoadsRaises(text) == text[1] # "json"
Loads(text) == text[2]

\* The connection of one call: sound, or failing after some commands.
Sound == [fails |-> FALSE, after |-> 0]
Conns == {Sound} \cup {[fails |-> TRUE, after |-> n] : n \in 0..MaxAfter}
\* the command sent after `used` others of the same call goes through
CommandOK(conn, used) == ~conn.fails \/ used < conn.after

\* The server: a key past its expiry is gone.
Live(st, t) == {e \in st : ~e.ttl \/ t <= e.exp}
LiveKeys(st, t) == {e.key : e \in Live(st, t)}
Drop(st, ks) == {e \in st : e.key \notin ks}
\* SETEX rejects a ttl that is not positive ("invalid expire time").
SetexRaises(ttl) == ttl <= 0
\* mutant: the key is written without an expiry
SetexForever(st, t, fk, ttl, text) ==
    Drop(st, {fk}) \cup {[key |-> fk, val |-> text, ttl |-> FALSE, exp |-> 0]}

Setex(st, t, fk, ttl, text) ==
    Drop(st, {fk}) \cup {[key |-> fk, val |-> text, ttl |-> TRUE, exp |-> t + ttl]}

\* The n first keys of S in the server's iteration order.
RECURSIVE FirstKeys(_, _)
FirstKeys(S, n) ==
    IF n = 0 \/ S = {} THEN {}
    ELSE LET m == CHOOSE x \in S : \A y \in S \ {x} : StrLess(x, y)
         IN  {m} \cup FirstKeys(S \ {m}, n - 1)

\* SCAN cursor MATCH pattern COUNT n: the next ScanCount keys after the
\* cursor are visited, the matching ones returned; cursor <<>> is 0.
ScanPage(st, t, cursor) ==
    LET rest    == {k \in LiveKeys(st, t) : StrLess(cursor, k)}
        visited == FirstKeys(rest, ScanCount)
        final   == CHOOSE x \in visited : \A y \in visited \ {x} : StrLess(y, x)
    IN  [cursor |-> IF visited = rest THEN <<>> ELSE final,
         keys   |-> {k \in visited : MatchesPrefix(k)}]

\* What the body of a try block came to.
\* hit: the body returns a value it read from the store.
Returned(st, res) == [store |-> st, result |-> res, exc |-> FALSE, hit |-> FALSE]
Found(st, res) == [store |-> st, result |-> res, exc |-> FALSE, hit |-> TRUE]
Raised(st) == [store |-> st, result |-> None, exc |-> TRUE, hit |-> FALSE]

\* mutant: no except clause
CaughtOff(out, default) ==
    [store |-> out.store, result |-> out.result, exc |-> out.exc, raised |-> out.exc,
     hit |-> out.hit]

\* except Exception: log, return the default
Caught(out, default) ==
    [store |-> out.store, exc |-> out.exc, raised |-> FALSE, hit |-> out.hit,
     result |-> IF out.exc THEN default ELSE out.result]

\* except Exception: log, raise
Reraised(out) ==
    [store |-> out.store, result |-> out.result, exc |-> out.exc, raised |-> out.exc,
     hit |-> out.hit]

\* RedisCacheBackend.__init__: from_url, ping
RedisInit(reachable) ==
    Reraised(IF reachable THEN Returned({}, None) ELSE Raised({}))

\* RedisCacheBackend.get
RedisGet(st, t, k, conn) ==
    LET hit == {e \in Live(st, t) : e.key = RedisMakeKey(k)}
        value == (CHOOSE e \in hit : TRUE).val
    IN  Caught(IF ~CommandOK(conn, 0) THEN Raised(st)
               ELSE IF hit = {} THEN Returned(st, None)
               ELSE IF LoadsRaises(value) THEN Raised(st)
               ELSE Found(st, Loads(value)),
               None)

\* RedisCacheBackend.set
RedisSet(st, t, k, v, ttl, conn) ==
    Caught(IF ~CommandOK(conn, 0) \/ SetexRaises(ttl) THEN Raised(st)
           ELSE Returned(Setex(st, t, RedisMakeKey(k), ttl, Dumps(v)), None),
           None)

\* RedisCacheBackend.delete
RedisDelete(st, k, conn) ==
    Caught(IF ~CommandOK(conn, 0) THEN Raised(st)
           ELSE Returned(Drop(st, {RedisMakeKey(k)}), None),
           None)

\* the while loop of clear, `used` commands into the call
RECURSIVE ClearLoop(_, _, _, _, _)
ClearLoop(st, t, cursor, conn, used) ==
    IF ~CommandOK(conn, used) THEN Raised(st)
    ELSE LET page == ScanPage(st, t, cursor)
         IN  IF page.keys # {}
             THEN IF ~CommandOK(conn, used + 1) THEN Raised(st)
                  ELSE IF page.cursor = <<>>
                       THEN Returned(Drop(st, page.keys), None)
                       ELSE ClearLoop(Drop(st, page.keys), t, page.cursor, conn, used + 2)
             ELSE IF page.cursor = <<>> THEN Returned(st, None)
                  ELSE ClearLoop(st, t, page.cursor, conn, used + 1)

\* RedisCacheBackend.clear
RedisClear(st, t, conn) == Caught(ClearLoop(st, t, <<>>, conn, 0), None)

\* the while loop of size
RECURSIVE SizeLoop(_, _, _, _, _, _)
SizeLoop(st, t, cursor, count, conn, used) ==
    IF ~CommandOK(conn, used) THEN Raised(st)
    ELSE LET page == ScanPage(st, t, cursor)
             count2 == count + Cardinality(page.keys)
         IN  IF page.cursor = <<>> THEN Returned(st, count2)
             ELSE SizeLoop(st, t, page.cursor, count2, conn, used + 1)

\* RedisCacheBackend.size
RedisSize(st, t, conn) == Caught(SizeLoop(st, t, <<>>, 0, conn, 0), 0)

\* ------------------------------------------- RedisCacheBackend, calls
\* "A", "B": the keys the backend is called with.
RedisKeys == {<<65>>, <<66>>}
\* "A", "yt:B": keys other programs keep in the same store.
ForeignKeys == {<<65>>, <<121, 116, 58, 66>>}
ForeignTexts == {<<"raw", "x">>, <<"raw", "y">>}
\* ttl_seconds of the sets of one run
RedisTtls == {-1, 0, 1}

Foreign(st) == {e \in st : e.key \in ForeignKeys}
NoRedisCall ==
    [op |-> "none", key |-> <<>>, value |-> None, ttl |-> 0, at |-> 0, exc |-> FALSE,
     raised |-> FALSE, result |-> None, foreign |-> {}, met |-> {}]
\* met: the entries under the cache's prefix the call found in the store
RedisCall(op, k, v, out) ==
    [op |-> op, key |-> k, value |-> v, ttl |-> ttl_seconds, at |-> now, exc |-> out.exc,
     raised |-> out.raised, result |-> out.result, foreign |-> Foreign(Live(store, now)),
     met |-> Live(store, now) \ Foreign(store)]

RConnect(reachable) ==
    LET out == RedisInit(reachable)
    IN  /\ ~connected
        /\ connected' = ~out.raised
        /\ rcall' = RedisCall("init", <<>>, None, out)
        /\ UNCHANGED <<store, now, ttl_seconds, redisFrame>>

RGet(k, conn) ==
    LET out == RedisGet(store, now, k, conn)
    IN  /\ connected
        /\ store' = out.store
        /\ rcall' = RedisCall("get", k, None, out)
        /\ UNCHANGED <<connected, now, ttl_seconds, redisFrame>>

RSet(k, v, conn) ==
    LET out == RedisSet(store, now, k, v, ttl_seconds, conn)
    IN  /\ connected
        /\ store' = out.store
        /\ rcall' = RedisCall("set", k, v, out)
        /\ UNCHANGED <<connected, now, ttl_seconds, redisFrame>>

RDelete(k, conn) ==
    LET out == RedisDelete(store, k, conn)
    IN  /\ connected
        /\ store' = out.store
        /\ rcall' = RedisCall("delete", k, None, out)
        /\ UNCHANGED <<connected, now, ttl_seconds, redisFrame>>

RClear(conn) ==
    LET out == RedisClear(store, now, conn)
    IN  /\ connected
        /\ store' = out.store
        /\ rcall' = RedisCall("clear", <<>>, None, out)
        /\ UNCHANGED <<connected, now, ttl_seconds, redisFrame>>

RSize(conn) ==
    LET out == RedisSize(store, now, conn)
    IN  /\ connected
        /\ store' = out.store
        /\ rcall' = RedisCall("size", <<>>, None, out)
        /\ UNCHANGED <<connected, now, ttl_seconds, redisFrame>>

\* another program writes one of its keys, with no expiry
OtherWrite(fk, text) ==
    /\ store' = Drop(store, {fk}) \cup {[key |-> fk, val |-> text, ttl |-> FALSE, exp |-> 0]}
    /\ rcall' = NoRedisCall
    /\ UNCHANGED <<connected, now, ttl_seconds, redisFrame>>

\* time passes; the server drops the keys past their expiry
RTick ==
    /\ now < MaxTime
    /\ now' = now + 1
    /\ store' = Live(store, now + 1)
    /\ rcall' = NoRedisCall
    /\ UNCHANGED <<connected, ttl_seconds, redisFrame>>

\* --------------------------------------------------- TranscriptCache
\* The facade is [enabled, backend_type, backend]: backend says what
\* self._backend is, "none", "memory" (the dict is the variable cache) or
\* "redis" (the server is the variable store); max_size and ttl_seconds are
\* the variables of those names.  cfg_enabled, cfg_backend and reachable
\* are history: the settings it was constructed from, and whether the
\* server answered then.

\* "metadata:"
MetadataPrefix == <<109, 101, 116, 97, 100, 97, 116, 97, 58>>

\* mutant: metadata goes under the video's default transcript key
MakeMetadataKeyAsTranscript(video_id) == MakeTranscriptKey(video_id, NoLangs)

\* TranscriptCache._make_metadata_key
MakeMetadataKey(video_id) == MetadataPrefix \o video_id

\* A segment is a snippet object (obj) or a dict with the keys text, start
\* and duration; ToDict is the dict the facade stores for it, built from the
\* attributes of the one and copied from the items of the other.
SegObj(text, start, duration) ==
    [obj |-> TRUE, text |-> text, start |-> start, duration |-> duration]
SegDict(text, start, duration) ==
    [obj |-> FALSE, text |-> text, start |-> start, duration |-> duration]
HasText(t) == t.obj
ToDict(t) ==
    IF HasText(t) THEN [text |-> t.text, start |-> t.start, duration |-> t.duration]
    ELSE [text |-> t.text, start |-> t.start, duration |-> t.duration]
\* transcript_data
ToDicts(transcript) == [i \in DOMAIN transcript |-> ToDict(transcript[i])]

\* mutant: the fallback keeps the backend_type of the settings
FacadeInitKeepsType(enabled, backend_type, reachable) ==
    [enabled |-> enabled, cfg_enabled |-> enabled, cfg_backend |-> backend_type,
     reachable |-> reachable, backend_type |-> backend_type,
     backend |-> IF ~enabled THEN "none"
                 ELSE IF backend_type = "redis" /\ ~RedisInit(reachable).raised THEN "redis"
                 ELSE "memory"]

\* TranscriptCache.__init__
FacadeInit(enabled, backend_type, reachable) ==
    LET f == [enabled |-> enabled, cfg_enabled |-> enabled, cfg_backend |-> backend_type,
              reachable |-> reachable, backend_type |-> backend_type, backend |-> "none"]
    IN  IF ~enabled THEN f
        ELSE IF backend_type = "redis"
             THEN IF RedisInit(reachable).raised
                  THEN [f EXCEPT !.backend = "memory", !.backend_type = "memory"]
                  ELSE [f EXCEPT !.backend = "redis"]
        ELSE [f EXCEPT !.backend = "memory"]

\* mutant: only the backend is tested
FacadeOnAnyFlag(f) == f.backend # "none"

\* not (not self.enabled or self._backend is None)
FacadeOn(f) == f.enabled /\ f.backend # "none"

\* What a facade call came to: the dict, the server, Optional result
\* (<<>> is None, <<x>> is x), whether it raised, whether the backend failed.
Outcome(c, st, res, raised, exc) ==
    [cache |-> c, store |-> st, result |-> res, raised |-> raised, exc |-> exc]

\* self._backend.get(key)
BackendGet(f, c, st, t, k, conn) ==
    IF f.backend = "memory"
    THEN LET c2 == MemGetCache(c, t, k)
         IN  Outcome(c2, st, IF k \in StoredKeys(c2) THEN <<MemGetResult(c, t, k)>> ELSE <<>>,
                     FALSE, FALSE)
    ELSE LET out == RedisGet(st, t, k, conn)
         IN  Outcome(c, out.store, IF out.hit THEN <<out.result>> ELSE <<>>,
                     out.raised, out.exc)

\* self._backend.set(key, value, self.ttl_seconds)
BackendSet(f, c, st, t, k, v, ttl, n, conn) ==
    IF f.backend = "memory"
    THEN Outcome(MemSet(c, t, k, v, ttl, n), st, <<>>, MemSetRaises(n), MemSetRaises(n))
    ELSE LET out == RedisSet(st, t, k, v, ttl, conn)
         IN  Outcome(c, out.store, <<>>, out.raised, out.exc)

\* self._backend.clear()
BackendClear(f, c, st, t, conn) ==
    IF f.backend = "memory" THEN Outcome(MemClear(c), st, <<>>, FALSE, FALSE)
    ELSE LET out == RedisClear(st, t, conn)
         IN  Outcome(c, out.store, <<>>, out.raised, out.exc)

\* self._backend.size()
BackendSize(f, c, st, t, conn) ==
    IF f.backend = "memory" THEN Outcome(c, st, <<MemSize(c)>>, FALSE, FALSE)
    ELSE LET out == RedisSize(st, t, conn)
         IN  Outcome(c, out.store, <<out.result>>, out.raised, out.exc)

\* TranscriptCache.get
FacadeGet(f, c, st, t, video_id, languages, conn) ==
    IF ~FacadeOn(f) THEN Outcome(c, st, <<>>, FALSE, FALSE)
    ELSE BackendGet(f, c, st, t, MakeTranscriptKey(video_id, languages), conn)

\* TranscriptCache.set
FacadeSet(f, c, st, t, video_id, transcript, languages, ttl, n, conn) ==
    IF ~FacadeOn(f) THEN Outcome(c, st, <<>>, FALSE, FALSE)
    ELSE BackendSet(f, c, st, t, MakeTranscriptKey(video_id, languages),
                    ToDicts(transcript), ttl, n, conn)

\* TranscriptCache.get_metadata
FacadeGetMetadata(f, c, st, t, video_id, conn) ==
    IF ~FacadeOn(f) THEN Outcome(c, st, <<>>, FALSE, FALSE)
    ELSE BackendGet(f, c, st, t, MakeMetadataKey(video_id), conn)

\* TranscriptCache.set_metadata
FacadeSetMetadata(f, c, st, t, video_id, metadata, ttl, n, conn) ==
    IF ~FacadeOn(f) THEN Outcome(c, st, <<>>, FALSE, FALSE)
    ELSE BackendSet(f, c, st, t, MakeMetadataKey(video_id), metadata, ttl, n, conn)

\* TranscriptCache.clear
FacadeClear(f, c, st, t, conn) ==
    IF f.backend # "none" THEN BackendClear(f, c, st, t, conn)
    ELSE Outcome(c, st, <<>>, FALSE, FALSE)

\* TranscriptCache.size
FacadeSize(f, c, st, t, conn) ==
    IF f.backend = "none" THEN Outcome(c, st, <<0>>, FALSE, FALSE)
    ELSE BackendSize(f, c, st, t, conn)

\* mutant: the scan stops at the first expired entry
RECURSIVE CleanupLoopOnce(_, _, _, _)
CleanupLoopOnce(c, keys, t, count) ==
    IF keys = <<>> THEN [cache |-> c, count |-> count]
    ELSE IF Head(keys) \in StoredKeys(c) /\ Expired(t, Entry(c, Head(keys)))
         THEN [cache |-> Remove(c, Head(keys)), count |-> count + 1]
         ELSE CleanupLoopOnce(c, Tail(keys), t, count)

\* for key in keys_to_check: an entry past its expiry is deleted and counted
RECURSIVE CleanupLoop(_, _, _, _)
CleanupLoop(c, keys, t, count) ==
    IF keys = <<>> THEN [cache |-> c, count |-> count]
    ELSE IF Head(keys) \in StoredKeys(c) /\ Expired(t, Entry(c, Head(keys)))
         THEN CleanupLoop(Remove(c, Head(keys)), Tail(keys), t, count + 1)
         ELSE CleanupLoop(c, Tail(keys), t, count)

\* TranscriptCache.cleanup_expired
FacadeCleanupExpired(f, c, st, t) ==
    IF ~FacadeOn(f) THEN Outcome(c, st, <<0>>, FALSE, FALSE)
    ELSE IF f.backend = "memory"
         THEN LET done == CleanupLoop(c, KeySeq(c), t, 0)
              IN  Outcome(done.cache, st, <<done.count>>, FALSE, FALSE)
         ELSE Outcome(c, st, <<0>>, FALSE, FALSE)

\* --------------------------------------------- TranscriptCache, calls
\* "X"
FacadeVideos == {<<88>>}
FacadeLangs ==
    {NoLangs, Some(<<LangEn>>), Some(<<LangEs, LangEn>>), Some(<<LangEn, LangEs>>)}
Transcripts == {<<SegObj("hi", 0, 1)>>, <<SegDict("a", 0, 1), SegDict("b", 1, 2)>>}
Metadatas == {[title |-> "T1"]}
\* CACHE_BACKEND is any string of the environment
Selectors == {"memory", "redis", "memcached"}
\* CACHE_TTL_SECONDS is a plain int
FacadeTtls == {-1, 0, 1}
\* CACHE_MAX_SIZE is a plain int
Capacities == {0, 1, 2}
\* the connection of a facade call: sound, or failing at once
FacadeConns == {Sound, [fails |-> TRUE, after |-> 0]}

\* The entries the cache keeps in the backend.
Held(c, st) == [cache |-> c, store |-> {e \in st : MatchesPrefix(e.key)}]

\* history: the call just made, what it returned (Optional), whether it
\* raised, whether the backend failed in it, and whether it changed what
\* the backend holds.
FacadeCall(op, out) ==
    [op |-> op, result |-> out.result, raised |-> out.raised, exc |-> out.exc,
     changed |-> Held(out.cache, out.store) # Held(cache, store)]

FacadeStep(op, out) ==
    /\ cache' = out.cache
    /\ store' = out.store
    /\ fcall' = FacadeCall(op, out)
    /\ UNCHANGED <<facade, max_size, ttl_seconds, now, histVars, keyVars, connected, rcall,
                   fetchVars, eq>>

FGet(video_id, languages, conn) ==
    FacadeStep("get",
               FacadeGet(facade, cache, store, now, video_id, languages, conn))

FSet(video_id, transcript, languages, conn) ==
    FacadeStep("set",
               FacadeSet(facade, cache, store, now, video_id, transcript, languages,
                         ttl_seconds, max_size, conn))

FGetMetadata(video_id, conn) ==
    FacadeStep("get_metadata",
               FacadeGetMetadata(facade, cache, store, now, video_id, conn))

FSetMetadata(video_id, metadata, conn) ==
    FacadeStep("set_metadata",
               FacadeSetMetadata(facade, cache, store, now, video_id, metadata,
                                 ttl_seconds, max_size, conn))

FClear(conn) ==
    FacadeStep("clear", FacadeClear(facade, cache, store, now, conn))

FSize(conn) ==
    FacadeStep("size", FacadeSize(facade, cache, store, now, conn))

FCleanupExpired ==
    FacadeStep("cleanup_expired", FacadeCleanupExpired(facade, cache, store, now))

\* cache.enabled = ...: the flag is a plain attribute
SetEnabled(b) ==
    /\ facade.enabled # b
    /\ facade' = [facade EXCEPT !.enabled = b]
    /\ fcall' = FacadeCall("enabled", Outcome(cache, store, <<>>, FALSE, FALSE))
    /\ UNCHANGED <<cache, store, max_size, ttl_seconds, now, histVars, keyVars, connected,
                   rcall, fetchVars, eq>>

\* time passes between two calls of the facade
FTick ==
    /\ now < FacadeMaxTime
    /\ now' = now + 1
    /\ store' = Live(store, now + 1)
    /\ UNCHANGED <<cache, facade, fcall, max_size, ttl_seconds, histVars, keyVars, connected,
                   rcall, fetchVars, eq>>

\* ------------------------------------ YouTubeTools._fetch_transcript
\* A request runs from its start to its first await in one piece, and from
\* the end of an await to the next one or to its return.  A task is
\* [pc, video_id, languages, translate_to] and, as history, hit (it was
\* served from the cache), fetches (the upstream fetches it started), got
\* (what upstream gave it), wrote (what it set in the cache, under which
\* languages), error (it raised) and overlap (it missed on a key while
\* another request that had missed on that key was in flight).

TaskIds == {1, 2}
\* "->>", "auto"
Arrow == <<45, 62, 62>>
Auto == <<97, 117, 116, 111>>
\* translate_to: <<>> is None, <<l>> is the language l
NoTarget == <<>>

\* languages or ["en"]
Normalized(languages) == IF Truthy(languages) THEN languages[1] ELSE <<LangEn>>

\* cache_key_langs
KeyLangs(languages, translate_to) ==
    IF translate_to = NoTarget THEN Some(Normalized(languages))
    ELSE Some(<<Normalized(languages)[1] \o Arrow \o translate_to[1]>>)

\* [f"auto->>{target_lang}"]
AutoLangs(languages) == Some(<<Auto \o Arrow \o Normalized(languages)[1]>>)

\* mutant: the first write of a key is kept
WriteBackIfAbsent(f, c, st, t, video_id, transcript, languages, ttl, n) ==
    IF FacadeGet(f, c, st, t, video_id, languages, Sound).result # <<>>
    THEN Outcome(c, st, <<>>, FALSE, FALSE)
    ELSE FacadeSet(f, c, st, t, video_id, transcript, languages, ttl, n, Sound)

\* cache.set(video_id, transcript, ...) of a request
WriteBack(f, c, st, t, video_id, transcript, languages, ttl, n) ==
    FacadeSet(f, c, st, t, video_id, transcript, languages, ttl, n, Sound)

\* no request has written since the start or the last clear
NoWrite == [task |-> 0, video_id |-> <<>>, languages |-> NoLangs, value |-> <<>>]

IdleTask ==
    [pc |-> "idle", video_id |-> <<>>, languages |-> NoLangs, translate_to |-> NoTarget,
     fetches |-> 0, hit |-> FALSE, got |-> <<>>, wrote |-> <<>>, error |-> FALSE,
     overlap |-> FALSE]
InFlight == {"fetching", "translating", "fallback"}
\* the key a task looked up
TaskKey(task) ==
    MakeTranscriptKey(task.video_id, KeyLangs(task.languages, task.translate_to))

\* the keys a task looked up or wrote
TaskKeys(task) ==
    {TaskKey(task)} \cup
    {MakeTranscriptKey(task.video_id, task.wrote[i].languages) : i \in DOMAIN task.wrote}

\* What the upstream calls of a request are made with: api.fetch(video_id,
\* languages=normalized_languages), _fetch_with_translation(video_id,
\* normalized_languages, translate_to) and, in the fallback,
\* _fetch_with_translation(video_id, None, normalized_languages[0]).
FetchArguments(video_id, languages, translate_to) ==
    [video_id |-> video_id, languages |-> Normalized(languages),
     translate_to |-> translate_to]

FetchFrame == <<facade, fcall, store, connected, rcall, max_size, ttl_seconds, now, histVars,
                keyVars, mtasks, eq>>

\* from the call to the first await: cache.get, then return or fetch
Begin(i, video_id, languages, translate_to) ==
    LET out == FacadeGet(facade, cache, store, now, video_id,
                         KeyLangs(languages, translate_to), Sound)
        hit == out.result # <<>>
        k == MakeTranscriptKey(video_id, KeyLangs(languages, translate_to))
        others == {j \in TaskIds \ {i} : tasks[j].pc \in InFlight /\ TaskKey(tasks[j]) = k}
        task == [IdleTask EXCEPT !.video_id = video_id, !.languages = languages,
                                 !.translate_to = translate_to]
    IN  /\ tasks[i].pc \in {"idle", "done"}
        /\ cache' = out.cache
        /\ tasks' = [j \in TaskIds |->
             IF j = i
             THEN IF hit THEN [task EXCEPT !.pc = "done", !.hit = TRUE]
                  ELSE [task EXCEPT !.pc = IF translate_to # NoTarget THEN "translating"
                                           ELSE "fetching",
                                    !.fetches = 1, !.overlap = others # {}]
             ELSE IF ~hit /\ j \in others THEN [tasks[j] EXCEPT !.overlap = TRUE]
             ELSE tasks[j]]
        /\ UNCHANGED <<lastWrite, FetchFrame>>

\* the task returns transcript after setting it under languages, or goes on
\* as `failed` says when the set raises
Written(i, transcript, languages, failed) ==
    LET task == tasks[i]
        set == WriteBack(facade, cache, store, now, task.video_id, transcript, languages,
                         ttl_seconds, max_size)
    IN  IF set.raised
        THEN /\ tasks' = [tasks EXCEPT ![i] = failed]
             /\ UNCHANGED <<cache, lastWrite>>
        ELSE /\ cache' = set.cache
             /\ tasks' = [tasks EXCEPT ![i] =
                  [task EXCEPT !.pc = "done", !.got = <<transcript>>,
                               !.wrote = <<[languages |-> languages,
                                            value |-> ToDicts(transcript)]>>]]
             /\ lastWrite' = [task |-> i, video_id |-> task.video_id,
                              languages |-> languages, value |-> ToDicts(transcript)]

\* await loop.run_in_executor(... api.fetch ...) ends
Direct(i, ok, transcript) ==
    LET task == tasks[i]
        fallback == [task EXCEPT !.pc = "fallback", !.fetches = @ + 1]
    IN  /\ task.pc = "fetching"
        /\ IF ok THEN Written(i, transcript, KeyLangs(task.languages, task.translate_to),
                              fallback)
           ELSE tasks' = [tasks EXCEPT ![i] = fallback] /\ UNCHANGED <<cache, lastWrite>>
        /\ UNCHANGED FetchFrame

\* await _fetch_with_translation(..., normalized_languages, translate_to) ends
Translated(i, ok, transcript) ==
    LET task == tasks[i]
        raised == [task EXCEPT !.pc = "done", !.error = TRUE]
    IN  /\ task.pc = "translating"
        /\ IF ok THEN Written(i, transcript, KeyLangs(task.languages, task.translate_to),
                              raised)
           ELSE tasks' = [tasks EXCEPT ![i] = raised] /\ UNCHANGED <<cache, lastWrite>>
        /\ UNCHANGED FetchFrame

\* await _fetch_with_translation(..., None, target_lang) ends
Fallback(i, ok, transcript) ==
    LET task == tasks[i]
        raised == [task EXCEPT !.pc = "done", !.error = TRUE]
    IN  /\ task.pc = "fallback"
        /\ IF ok THEN Written(i, transcript, AutoLangs(task.languages), raised)
           ELSE tasks' = [tasks EXCEPT ![i] = raised] /\ UNCHANGED <<cache, lastWrite>>
        /\ UNCHANGED FetchFrame

\* ----------------------------------- YouTubeTools.get_video_data
\* The request starts from a video id that get_youtube_video_id accepted.
\* It runs in one piece up to `await client.get(...)` and in one piece from
\* the response to its return.  A task is [pc, video_id, use_cache] and, as
\* history: requests (the HTTP requests it made), hit, got (what it
\* returned), error (it raised HTTPException), at (when the entry it wrote
\* or was served was written, -1 if it has none), again (the request before
\* it on this task id was the same, succeeded with the cache at time `at`,
\* the ttl has not run out since and no later write or clear was made) and
\* first (what that request returned).

MetaIds == {3}

IdleMeta ==
    [pc |-> "idle", video_id |-> <<>>, use_cache |-> TRUE, requests |-> 0, hit |-> FALSE,
     got |-> <<>>, error |-> FALSE, at |-> -1, again |-> FALSE, first |-> <<>>]

\* if use_cache: cached_metadata = cache.get_metadata(video_id)
MetaLookup(f, c, st, t, video_id, use_cache) ==
    IF use_cache THEN FacadeGetMetadata(f, c, st, t, video_id, Sound)
    ELSE Outcome(c, st, <<>>, FALSE, FALSE)

\* mutant: the response is returned without being cached
MetaWriteBackOff(f, c, st, t, video_id, metadata, ttl, n, use_cache) ==
    Outcome(c, st, <<>>, FALSE, FALSE)

\* if use_cache: cache.set_metadata(video_id, clean_data)
MetaWriteBack(f, c, st, t, video_id, metadata, ttl, n, use_cache) ==
    IF use_cache THEN FacadeSetMetadata(f, c, st, t, video_id, metadata, ttl, n, Sound)
    ELSE Outcome(c, st, <<>>, FALSE, FALSE)

ServerFrame == <<facade, store, connected, rcall, max_size, ttl_seconds, now, histVars,
                 keyVars, eq>>

\* from the call to `await client.get`: the cache lookup, then return or ask
MBegin(i, video_id, use_cache) ==
    LET prev == mtasks[i]
        out == MetaLookup(facade, cache, store, now, video_id, use_cache)
        hit == out.result # <<>>
        again == /\ prev.pc = "done" /\ ~prev.error
                 /\ prev.use_cache /\ use_cache
                 /\ prev.video_id = video_id
                 /\ prev.at >= 0 /\ now <= prev.at + ttl_seconds
                 /\ lastWrite.task = i
        task == [IdleMeta EXCEPT !.video_id = video_id, !.use_cache = use_cache,
                                 !.again = again,
                                 !.at = IF again THEN prev.at ELSE -1,
                                 !.first = IF again THEN prev.got ELSE <<>>]
    IN  /\ prev.pc \in {"idle", "done"}
        /\ cache' = out.cache
        /\ mtasks' = [mtasks EXCEPT ![i] =
             IF hit THEN [task EXCEPT !.pc = "done", !.hit = TRUE, !.got = out.result]
             ELSE [task EXCEPT !.pc = "http", !.requests = 1]]
        /\ UNCHANGED <<tasks, lastWrite, fcall, ServerFrame>>

\* the response arrives: raise_for_status, clean_data, set_metadata, return;
\* any exception in between becomes HTTPException(500)
MResponse(i, ok, metadata) ==
    LET task == mtasks[i]
        set == MetaWriteBack(facade, cache, store, now, task.video_id, metadata,
                             ttl_seconds, max_size, task.use_cache)
        raised == [task EXCEPT !.pc = "done", !.error = TRUE]
    IN  /\ task.pc = "http"
        /\ IF ~ok
           THEN mtasks' = [mtasks EXCEPT ![i] = raised] /\ UNCHANGED <<cache, lastWrite>>
           ELSE IF set.raised
           THEN /\ mtasks' = [mtasks EXCEPT ![i] = raised]
                /\ cache' = set.cache
                /\ UNCHANGED lastWrite
           ELSE /\ cache' = set.cache
                /\ mtasks' = [mtasks EXCEPT ![i] =
                     [task EXCEPT !.pc = "done", !.got = <<metadata>>,
                                  !.at = IF task.use_cache THEN now ELSE -1]]
                /\ lastWrite' = IF task.use_cache /\ FacadeOn(facade)
                                THEN [task |-> i, video_id |-> task.video_id,
                                      languages |-> NoLangs, value |-> metadata]
                                ELSE lastWrite
        /\ UNCHANGED <<tasks, fcall, ServerFrame>>

\* ----------------------------------- get_cache_stats, clear_cache
\* Neither route awaits anything: each runs in one piece.

\* get_cache_stats: cache.size()
StatsRequest ==
    LET out == FacadeSize(facade, cache, store, now, Sound)
    IN  /\ fcall' = FacadeCall("stats", out)
        /\ UNCHANGED <<cache, fetchVars, ServerFrame>>

\* clear_cache: cache.clear(), then cache.size() for the answer
ClearRequest ==
    LET cleared == FacadeClear(facade, cache, store, now, Sound)
        out == FacadeSize(facade, cleared.cache, cleared.store, now, Sound)
    IN  /\ cache' = out.cache
        /\ fcall' = FacadeCall("clear", out)
        /\ lastWrite' = NoWrite
        /\ UNCHANGED <<tasks, mtasks, ServerFrame>>

\* ------------------------ MemoryCacheBackend and RedisCacheBackend
\* The same calls are made to a MemoryCacheBackend (cache) and to a
\* RedisCacheBackend on a server of its own that answers (store); eq is the
\* call and what each returned.  stale: the dict held an entry past its
\* expiry when the call was made.

Stale(c, t) == \E i \in DOMAIN c : Expired(t, c[i])
Both(op, mem, redis) ==
    [op |-> op, mem |-> mem, redis |-> redis.result, stale |-> Stale(cache, now)]

EqFrame == <<facade, fcall, connected, rcall, max_size, ttl_seconds, histVars, keyVars,
             fetchVars>>

EGet(k) ==
    LET redis == RedisGet(store, now, k, Sound)
    IN  /\ cache' = MemGetCache(cache, now, k)
        /\ store' = redis.store
        /\ eq' = Both("get", MemGetResult(cache, now, k), redis)
        /\ UNCHANGED <<now, EqFrame>>

ESet(k, v) ==
    LET redis == RedisSet(store, now, k, v, ttl_seconds, Sound)
    IN  /\ cache' = MemSet(cache, now, k, v, ttl_seconds, max_size)
        /\ store' = redis.store
        /\ eq' = Both("set", None, redis)
        /\ UNCHANGED <<now, EqFrame>>

EDelete(k) ==
    LET redis == RedisDelete(store, k, Sound)
    IN  /\ cache' = MemDelete(cache, k)
        /\ store' = redis.store
        /\ eq' = Both("delete", None, redis)
        /\ UNCHANGED <<now, EqFrame>>

EClear ==
    LET redis == RedisClear(store, now, Sound)
    IN  /\ cache' = MemClear(cache)
        /\ store' = redis.store
        /\ eq' = Both("clear", None, redis)
        /\ UNCHANGED <<now, EqFrame>>

ESize ==
    LET redis == RedisSize(store, now, Sound)
    IN  /\ eq' = Both("size", MemSize(cache), redis)
        /\ UNCHANGED <<cache, store, now, EqFrame>>

\* time passes for both
ETick ==
    /\ now < MaxTime
    /\ now' = now + 1
    /\ store' = Live(store, now + 1)
    /\ eq' = [op |-> "tick", mem |-> None, redis |-> None, stale |-> Stale(cache, now + 1)]
    /\ UNCHANGED <<cache, EqFrame>>

\* ------------------------------------------------- specifications

\* The parts of the state a specification does not use.
NoFacadeCall ==
    [op |-> "none", result |-> <<>>, raised |-> FALSE, exc |-> FALSE, changed |-> FALSE]
NoEq == [op |-> "none", mem |-> None, redis |-> None, stale |-> FALSE]
MemIdle ==
    /\ cache = <<>>
    /\ last = Call("init", NoKey, None, None, "")
    /\ setExpiry = <<>>
    /\ useOrder = <<>>
    /\ setRun = <<>>
    /\ runOK = TRUE
KeyIdle == req = NoRequest /\ key = <<>>
RedisIdle == store = {} /\ connected = FALSE /\ rcall = <<>>
FacadeIdle == facade = <<>> /\ fcall = <<>>
FetchIdle == tasks = <<>> /\ lastWrite = <<>> /\ mtasks = <<>>
EqIdle == eq = <<>>

\* MemoryCacheBackend(max_size): an empty dict.
Init ==
    /\ cache = <<>>
    /\ max_size \in 1..MaxSize
    /\ ttl_seconds \in Ttls
    /\ now = 0
    /\ last = Call("init", NoKey, None, None, "")
    /\ setExpiry = <<>>
    /\ useOrder = <<>>
    /\ setRun = <<>>
    /\ runOK = TRUE
    /\ req = NoRequest
    /\ key = <<>>
    /\ RedisIdle /\ FacadeIdle /\ FetchIdle /\ EqIdle

Next ==
    \/ \E k \in Keys : Get(k)
    \/ \E k \in Keys, v \in Values : Set(k, v)
    \/ \E k \in Keys : Delete(k)
    \/ Clear
    \/ Size
    \/ Tick

\* The backend under any sequence of calls, with time passing in between.
Spec == Init /\ [][Next]_vars

InitKey ==
    /\ cache = <<>>
    /\ max_size = MaxSize
    /\ ttl_seconds = 1
    /\ now = 0
    /\ last = Call("init", NoKey, None, None, "")
    /\ setExpiry = <<>>
    /\ useOrder = <<>>
    /\ setRun = <<>>
    /\ runOK = TRUE
    /\ req = NoRequest
    /\ key = <<>>
    /\ RedisIdle /\ FacadeIdle /\ FetchIdle /\ EqIdle

NextKey ==
    \/ \E v \in VideoIds, l \in {NoLangs} \cup {Some(x) : x \in LangLists} : Request(v, l)
    \/ MakeKey

\* _make_transcript_key on every video id and language list of the bounds.
SpecKey == InitKey /\ [][NextKey]_vars

\* Another program's keys are in the store before the backend connects.
InitRedis ==
    /\ store = {[key |-> fk, val |-> <<"raw", "x">>, ttl |-> FALSE, exp |-> 0] : fk \in ForeignKeys}
    /\ connected = FALSE
    /\ rcall = NoRedisCall
    /\ now = 0
    /\ ttl_seconds \in RedisTtls
    /\ max_size = MaxSize
    /\ MemIdle /\ KeyIdle /\ FacadeIdle /\ FetchIdle /\ EqIdle

NextRedis ==
    \/ \E reachable \in BOOLEAN : RConnect(reachable)
    \/ \E k \in RedisKeys, conn \in Conns : RGet(k, conn)
    \/ \E k \in RedisKeys, v \in Values, conn \in Conns : RSet(k, v, conn)
    \/ \E k \in RedisKeys, conn \in Conns : RDelete(k, conn)
    \/ \E conn \in Conns : RClear(conn)
    \/ \E conn \in Conns : RSize(conn)
    \/ \E fk \in ForeignKeys, text \in ForeignTexts : OtherWrite(fk, text)
    \/ RTick

\* A RedisCacheBackend on a store it shares, over a connection that can fail.
SpecRedis == InitRedis /\ [][NextRedis]_vars

\* TranscriptCache(), whatever the settings and the state of the server.
InitFacade ==
    /\ \E enabled \in BOOLEAN, backend_type \in Selectors, reachable \in BOOLEAN :
         /\ backend_type # "redis" \/ ~enabled => reachable
         /\ facade = FacadeInit(enabled, backend_type, reachable)
    /\ fcall = NoFacadeCall
    /\ max_size \in Capacities
    /\ ttl_seconds \in FacadeTtls
    /\ now = 0
    /\ cache = <<>>
    /\ store = {}
    /\ connected = (facade.backend = "redis")
    /\ rcall = NoRedisCall
    /\ last = Call("init", NoKey, None, None, "")
    /\ setExpiry = <<>>
    /\ useOrder = <<>>
    /\ setRun = <<>>
    /\ runOK = TRUE
    /\ KeyIdle /\ FetchIdle /\ EqIdle

NextFacade ==
    \/ \E v \in FacadeVideos, l \in FacadeLangs, conn \in FacadeConns : FGet(v, l, conn)
    \/ \E v \in FacadeVideos, t \in Transcripts, l \in FacadeLangs, conn \in FacadeConns :
         FSet(v, t, l, conn)
    \/ \E v \in FacadeVideos, conn \in FacadeConns : FGetMetadata(v, conn)
    \/ \E v \in FacadeVideos, m \in Metadatas, conn \in FacadeConns : FSetMetadata(v, m, conn)
    \/ \E conn \in FacadeConns : FClear(conn)
    \/ \E conn \in FacadeConns : FSize(conn)
    \/ FCleanupExpired
    \/ \E b \in BOOLEAN : SetEnabled(b)
    \/ FTick

\* The facade under any sequence of calls, with time passing in between.
SpecFacade == InitFacade /\ [][NextFacade]_vars

FetchLangs == {NoLangs}
Targets == {NoTarget, <<LangEn>>}

\* The cache is enabled, on the memory backend, and empty; no request runs.
InitFetch ==
    /\ facade = FacadeInit(TRUE, "memory", TRUE)
    /\ fcall = NoFacadeCall
    /\ max_size \in 1..MaxSize
    /\ ttl_seconds = 1
    /\ now = 0
    /\ tasks = [i \in TaskIds |-> IdleTask]
    /\ lastWrite = NoWrite
    /\ mtasks = <<>>
    /\ MemIdle /\ KeyIdle /\ RedisIdle /\ EqIdle

NextFetch ==
    \/ \E i \in TaskIds, v \in FacadeVideos, l \in FetchLangs, tr \in Targets : Begin(i, v, l, tr)
    \/ \E i \in TaskIds, ok \in BOOLEAN, t \in Transcripts : Direct(i, ok, t)
    \/ \E i \in TaskIds, ok \in BOOLEAN, t \in Transcripts : Translated(i, ok, t)
    \/ \E i \in TaskIds, ok \in BOOLEAN, t \in Transcripts : Fallback(i, ok, t)

\* Two requests at a time on the event loop, each any number of times.
SpecFetch == InitFetch /\ [][NextFetch]_vars

\* one transcript request at a time next to the other requests
ServerTasks == {1}
ServerLangs == {NoLangs}
ServerTranscripts == {<<SegObj("hi", 0, 1)>>}

\* The process with its cache enabled, on the memory backend, and empty; no
\* request runs.
InitServer ==
    /\ facade = FacadeInit(TRUE, "memory", TRUE)
    /\ fcall = NoFacadeCall
    /\ max_size \in 1..MaxSize
    /\ ttl_seconds = 1
    /\ now = 0
    /\ tasks = [i \in TaskIds |-> IdleTask]
    /\ lastWrite = NoWrite
    /\ mtasks = [i \in MetaIds |-> IdleMeta]
    /\ MemIdle /\ KeyIdle /\ RedisIdle /\ EqIdle

NextServer ==
    \/ \E i \in ServerTasks, v \in FacadeVideos, l \in ServerLangs, tr \in Targets :
         Begin(i, v, l, tr)
    \/ \E i \in ServerTasks, ok \in BOOLEAN, t \in ServerTranscripts : Direct(i, ok, t)
    \/ \E i \in ServerTasks, ok \in BOOLEAN, t \in ServerTranscripts : Translated(i, ok, t)
    \/ \E i \in ServerTasks, ok \in BOOLEAN, t \in ServerTranscripts : Fallback(i, ok, t)
    \/ \E i \in MetaIds, v \in FacadeVideos, use_cache \in BOOLEAN : MBegin(i, v, use_cache)
    \/ \E i \in MetaIds, ok \in BOOLEAN, m \in Metadatas : MResponse(i, ok, m)
    \/ StatsRequest
    \/ ClearRequest
    \/ FTick

\* Transcript, metadata, stats and clear requests on one event loop, in any
\* interleaving of their pieces, with time passing in between.
SpecServer == InitServer /\ [][NextServer]_vars

PairLangs == {Some(<<LangEs, LangEn>>), Some(<<LangEn, LangEs>>), Some(<<LangEn>>)}

NextPair ==
    \/ \E i \in TaskIds, v \in FacadeVideos, l \in PairLangs : Begin(i, v, l, NoTarget)
    \/ \E i \in TaskIds, ok \in BOOLEAN, t \in ServerTranscripts : Direct(i, ok, t)
    \/ \E i \in TaskIds, ok \in BOOLEAN, t \in ServerTranscripts : Fallback(i, ok, t)

\* Two requests at a time that name their languages, in either order.
SpecPair == InitFetch /\ [][NextPair]_vars

\* Both backends empty, max_size above the number of keys they are called
\* with.
InitEquiv ==
    /\ cache = <<>>
    /\ store = {}
    /\ connected = TRUE
    /\ max_size = Cardinality(RedisKeys) + 1
    /\ ttl_seconds \in RedisTtls
    /\ now = 0
    /\ eq = NoEq
    /\ rcall = NoRedisCall
    /\ last = Call("init", NoKey, None, None, "")
    /\ setExpiry = <<>>
    /\ useOrder = <<>>
    /\ setRun = <<>>
    /\ runOK = TRUE
    /\ KeyIdle /\ FacadeIdle /\ FetchIdle

NextEquiv ==
    \/ \E k \in RedisKeys : EGet(k)
    \/ \E k \in RedisKeys, v \in Values : ESet(k, v)
    \/ \E k \in RedisKeys : EDelete(k)
    \/ EClear
    \/ ESize
    \/ ETick

\* The two backends under the same sequence of calls.
SpecEquiv == InitEquiv /\ [][NextEquiv]_vars

\* ------------------------------------------------------- claims

\* C1: with max_size N, after any sequence of get/set/delete/clear calls
\* the number of stored entries, which is what size() returns, is at most N.
C1_SizeNeverExceedsMax ==
    /\ MemSize(cache) <= max_size
    /\ last.op = "size" => last.result <= max_size

\* A set has just evicted from a full cache of the largest capacity.
C1_Witness ==
    /\ last.op = "set"
    /\ last.how \in {"evict", "evict-read"}
    /\ MemSize(cache) = max_size
    /\ max_size = MaxSize

\* C2: get never returns the value of an entry once the current time is
\* past the expiry instant of that entry (time of its last set + ttl).
C2_GetNeverReturnsExpired ==
    last.op = "get" =>
        /\ last.how = "expired" => last.result = None
        /\ last.result # None => last.how = "fresh"

\* A get has met an entry that was alive when written and is now expired.
C2_Witness ==
    /\ last.op = "get"
    /\ last.how = "expired"
    /\ last.result = None
    /\ ttl_seconds > 0
    /\ now = MaxTime

\* C3: for ttl > 0, a get(key) made right after set(key, value, ttl), with
\* no time elapsed and no call in between, returns exactly value, whatever
\* the cache held before.
C3_GetRightAfterSet ==
    (last.op = "get" /\ last.value # None /\ ttl_seconds > 0)
        => last.result = last.value

\* Such a get, on a cache that was full before the set.
C3_Witness ==
    /\ last.op = "get"
    /\ last.value \in Values
    /\ last.result = last.value
    /\ ttl_seconds > 0
    /\ MemSize(cache) = max_size
    /\ max_size = MaxSize
    /\ now > 0

\* C4: with max_size N, N+1 sets of distinct keys into an empty cache, with
\* no read in between, evict exactly the first key set; the other N keys are
\* stored with the values written, and a get returns each one's value (as
\* long as its ttl has not run out).
C4_FirstInsertedIsEvicted ==
    (runOK /\ Len(setRun) = max_size + 1) =>
        /\ setRun[1].key \notin StoredKeys(cache)
        /\ MemSize(cache) = max_size
        /\ \A i \in 2..Len(setRun) :
              /\ setRun[i].key \in StoredKeys(cache)
              /\ Entry(cache, setRun[i].key).value = setRun[i].value
              /\ Fresh(setRun[i].key)
                    => MemGetResult(cache, now, setRun[i].key) = setRun[i].value

\* N+1 distinct keys were set, the last N are all retrievable.
C4_Witness ==
    /\ runOK
    /\ Len(setRun) = max_size + 1
    /\ max_size = MaxSize
    /\ \A i \in 2..Len(setRun) :
          MemGetResult(cache, now, setRun[i].key) = setRun[i].value

\* C5: the dict is ordered by last successful get or set, so a read hit makes
\* its key the most recently used one; a set of a new key into a full cache
\* evicts the key whose last successful get or set is oldest, and every other
\* entry stays as it was.
C5_EvictsLeastRecentlyUsed ==
    /\ KeySeq(cache) = useOrder
    /\ \A k \in Keys \ StoredKeys(cache), v \in Values :
          (MemSize(cache) >= max_size /\ useOrder # <<>>) =>
              LET c2 == MemSet(cache, now, k, v, ttl_seconds, max_size)
              IN  /\ StoredKeys(c2) = (StoredKeys(cache) \ {useOrder[1]}) \cup {k}
                  /\ \A e \in EntrySet(cache) :
                        e.key # useOrder[1] => e \in EntrySet(c2)

\* A set has evicted a key that was written after a key that stayed: the
\* one that stayed had been read since.
C5_Witness ==
    /\ last.op = "set"
    /\ last.how = "evict-read"
    /\ MemSize(cache) = max_size
    /\ max_size = MaxSize
    /\ \A i \in DOMAIN cache : MemGetResult(cache, now, cache[i].key) = cache[i].value

\* C6: a get that hits a present, non-expired entry returns its value and
\* changes only the order: every entry keeps its key, value and expiry.
C6_HitChangesOnlyOrder ==
    \A k \in Keys :
        Fresh(k) =>
            LET c2 == MemGetCache(cache, now, k)
            IN  /\ MemGetResult(cache, now, k) = Entry(cache, k).value
                /\ EntrySet(c2) = EntrySet(cache)
                /\ Len(c2) = Len(cache)

\* A hit has moved an entry behind one written later; its expiry is still
\* the one its own set gave it.
C6_Witness ==
    /\ last.op = "get"
    /\ last.how = "fresh"
    /\ last.result \in Values
    /\ Len(cache) >= 2
    /\ cache[Len(cache)].key = last.key
    /\ cache[Len(cache)].expiry = setExpiry[last.key]
    /\ setExpiry[last.key] < setExpiry[cache[1].key]

\* C7: set on a stored key replaces its value and expiry, puts it in the
\* most recently used place and leaves one entry for the key, the size
\* unchanged; a later get returns the newer value or nothing, never the older.
C7_SetOnStoredKeyReplaces ==
    \A k \in StoredKeys(cache), v \in Values :
        LET c2 == MemSet(cache, now, k, v, ttl_seconds, max_size)
        IN  /\ MemSize(c2) = MemSize(cache)
            /\ c2 # <<>>
            /\ c2[Len(c2)] = [key |-> k, value |-> v, expiry |-> now + ttl_seconds]
            /\ Cardinality({i \in DOMAIN c2 : c2[i].key = k}) = 1
            /\ \A t \in now..MaxTime : MemGetResult(c2, t, k) \in {v, None}
            /\ ttl_seconds >= 0 => MemGetResult(c2, now, k) = v

\* A set has rewritten a stored key of a full cache.
C7_Witness ==
    /\ last.op = "set"
    /\ last.how = "update"
    /\ MemSize(cache) = max_size
    /\ max_size = MaxSize
    /\ cache[Len(cache)].key = last.key
    /\ cache[Len(cache)].value = last.value
    /\ ttl_seconds > 0

\* C8: after clear() the size is 0 and get returns absent for every key.
C8_ClearEmptiesTheCache ==
    last.op = "clear" =>
        /\ MemSize(cache) = 0
        /\ \A k \in Keys : MemGetResult(cache, now, k) = None

\* clear() has run on a cache that held entries.
C8_Witness ==
    /\ last.op = "clear"
    /\ last.how = "nonempty"
    /\ MemSize(cache) = 0

\* C9: a get that finds an entry past its expiry returns absent and removes
\* that entry: the size drops by one and the other entries are untouched.
C9_ExpiredGetRemovesEntry ==
    \A k \in Keys :
        PastExpiry(k) =>
            LET c2 == MemGetCache(cache, now, k)
            IN  /\ MemGetResult(cache, now, k) = None
                /\ c2 = SelectSeq(cache, LAMBDA e : e.key # k)
                /\ MemSize(c2) = MemSize(cache) - 1

\* A get has removed an expired entry and left another one stored.
C9_Witness ==
    /\ last.op = "get"
    /\ last.how = "expired"
    /\ last.result = None
    /\ last.key \notin StoredKeys(cache)
    /\ cache # <<>>
    /\ ttl_seconds > 0

\* The orders a list can be given in.
Perms(l) == {[i \in 1..Len(l) |-> l[f[i]]] : f \in Permutations(1..Len(l))}

\* C10: the transcript key does not depend on the order of the language
\* list, and languages=None gives the key of ["en"].
C10_KeyIgnoresLanguageOrder ==
    key # <<>> =>
        /\ req.languages # NoLangs =>
              \A p \in Perms(req.languages[1]) :
                  MakeTranscriptKey(req.video_id, Some(p)) = key
        /\ req.languages = NoLangs =>
              key = MakeTranscriptKey(req.video_id, Some(<<LangEn>>))

\* ("X", ["es", "en"]) gave "transcript:X:en,es".
C10_Witness ==
    /\ req = [video_id |-> <<88>>, languages |-> Some(<<LangEs, LangEn>>)]
    /\ key = TranscriptPrefix \o <<88, 58>> \o <<101, 110, 44, 101, 115>>

\* C13: a RedisCacheBackend call during which the store fails does not
\* raise: get returns None, size returns 0, set, delete and clear return;
\* a failure while the backend is constructed does raise, and leaves no
\* backend.
C13_RedisFailuresDegrade ==
    /\ rcall.op \in {"get", "set", "delete", "clear", "size"} => ~rcall.raised
    /\ rcall.op = "get" /\ rcall.exc => rcall.result = None
    /\ rcall.op = "size" /\ rcall.exc => rcall.result = 0
    /\ rcall.op = "init" /\ rcall.exc => rcall.raised /\ ~connected

\* a size call failed on a store that held entries of the cache
C13_Witness ==
    /\ rcall.op = "size"
    /\ rcall.exc
    /\ rcall.met # {}
    /\ rcall.result = 0
    /\ ~rcall.raised

\* C15: RedisCacheBackend.clear leaves every key of the store that does not
\* carry the prefix in place with its value, whether or not the call ran to
\* its end, and size counts the keys that carry the prefix and no other.
C15_ClearAndSizeKeepToPrefix ==
    /\ rcall.op = "clear" => Foreign(store) = rcall.foreign
    /\ rcall.op = "size" =>
         rcall.result = IF rcall.exc THEN 0 ELSE Cardinality(rcall.met)

\* a clear removed the cache's entries from a store with other keys in it
C15_Witness ==
    /\ rcall.op = "clear"
    /\ ~rcall.exc
    /\ rcall.met # {}
    /\ rcall.foreign # {}
    /\ store = rcall.foreign

\* C11: while the enabled flag is false every transcript get returns None
\* and no transcript get or set changes what the backend holds; on a facade
\* constructed disabled the backend holds nothing and size returns 0.
C11_DisabledFacadeStaysEmpty ==
    ~facade.enabled =>
      /\ fcall.op = "get" => fcall.result = <<>>
      /\ fcall.op \in {"get", "set"} => ~fcall.changed
      /\ \A v \in FacadeVideos, l \in FacadeLangs, conn \in FacadeConns :
           FacadeGet(facade, cache, store, now, v, l, conn).result = <<>>
      /\ ~facade.cfg_enabled =>
           /\ Held(cache, store) = Held(<<>>, {})
           /\ fcall.op = "size" => fcall.result = <<0>>
           /\ \A conn \in FacadeConns :
                FacadeSize(facade, cache, store, now, conn).result = <<0>>

\* a set was made on a facade constructed disabled
C11_Witness ==
    /\ ~facade.cfg_enabled
    /\ ~facade.enabled
    /\ fcall.op = "set"

\* C12: no call of the facade raises, and a get in which the backend fails
\* returns None.
C12_FacadeNeverRaises ==
    /\ ~fcall.raised
    /\ fcall.exc /\ fcall.op \in {"get", "get_metadata"} => fcall.result = <<>>

\* C14: a facade constructed enabled with CACHE_BACKEND "redis" while the
\* server does not answer holds a MemoryCacheBackend of max_size entries at
\* most, and its backend_type is "memory".
C14_RedisFailureFallsBackToMemory ==
    facade.cfg_enabled /\ facade.cfg_backend = "redis" /\ ~facade.reachable =>
      /\ facade.backend = "memory"
      /\ facade.backend_type = "memory"
      /\ MemSize(cache) <= max_size
      /\ store = {}

\* such a facade has filled its MemoryCacheBackend
C14_Witness ==
    /\ facade.cfg_enabled
    /\ facade.cfg_backend = "redis"
    /\ ~facade.reachable
    /\ max_size = 2
    /\ MemSize(cache) = max_size

\* The language list a call means, and whether two calls mean the same
\* languages: None and [] mean ["en"], order does not count.
Meant(languages) ==
    IF languages = NoLangs \/ languages[1] = <<>> THEN <<LangEn>> ELSE languages[1]
Times(c, l) == Cardinality({i \in DOMAIN l : l[i] = c})
SameLanguages(l1, l2) == \A c \in LangCodes : Times(c, Meant(l1)) = Times(c, Meant(l2))
\* text, start and duration of every segment, in order
Segments(transcript) ==
    [i \in DOMAIN transcript |->
       [text |-> transcript[i].text, start |-> transcript[i].start,
        duration |-> transcript[i].duration]]

\* C16: on an enabled facade with a backend, max_size >= 1 and a positive
\* ttl, a get made right after set(video_id, transcript, L) returns the
\* segments of transcript when its languages mean the same as L; when they
\* do not, and a get for them returned None before the set, it returns None.
C16_GetAfterSetByLanguage ==
    FacadeOn(facade) /\ max_size >= 1 /\ ttl_seconds > 0 =>
      \A v \in FacadeVideos, t \in Transcripts, l1 \in FacadeLangs, l2 \in FacadeLangs :
        LET before == FacadeGet(facade, cache, store, now, v, l2, Sound)
            set == FacadeSet(facade, cache, store, now, v, t, l1, ttl_seconds, max_size, Sound)
            get == FacadeGet(facade, set.cache, set.store, now, v, l2, Sound)
        IN  IF SameLanguages(l1, l2) THEN get.result = <<Segments(t)>>
            ELSE before.result = <<>> => get.result = <<>>

\* a get returned the two segments a set had stored
C16_Witness ==
    /\ facade.enabled
    /\ fcall.op = "get"
    /\ fcall.result # <<>>
    /\ Len(fcall.result[1]) = 2

\* C17: on an enabled facade with a backend, max_size >= 1 and a positive
\* ttl, set_metadata(video_id, m) stores m under "metadata:" + video_id and
\* a get_metadata(video_id) made up to ttl later returns m; on a disabled
\* facade set_metadata changes nothing and get_metadata returns None.
C17_MetadataSetThenGet ==
    \A v \in FacadeVideos, m \in Metadatas :
      LET set == FacadeSetMetadata(facade, cache, store, now, v, m, ttl_seconds, max_size, Sound)
      IN  /\ FacadeOn(facade) /\ max_size >= 1 /\ ttl_seconds > 0 =>
               /\ IF facade.backend = "memory"
                  THEN (MetadataPrefix \o v) \in StoredKeys(set.cache)
                  ELSE (RedisPrefix \o MetadataPrefix \o v) \in {e.key : e \in set.store}
               /\ \A d \in 0..ttl_seconds :
                    FacadeGetMetadata(facade, set.cache, Live(set.store, now + d), now + d,
                                      v, Sound).result = <<m>>
          /\ ~facade.enabled =>
               /\ Held(set.cache, set.store) = Held(cache, store)
               /\ FacadeGetMetadata(facade, cache, store, now, v, Sound).result = <<>>

\* a get_metadata returned what a set_metadata had stored, a tick later
C17_Witness ==
    /\ facade.enabled
    /\ fcall.op = "get_metadata"
    /\ fcall.result # <<>>
    /\ now > 0

\* C19: while the enabled flag is false, clear does not change what the
\* backend holds and size returns 0.
C19_DisabledClearAndSize ==
    ~facade.enabled =>
      /\ fcall.op = "clear" => ~fcall.changed
      /\ fcall.op = "size" => fcall.result = <<0>>

\* C18: a request that missed on a key while another request that had
\* missed on the same key was still in flight was not served from the
\* cache, started its own upstream fetch and, when upstream gave it a
\* transcript, set that transcript in the cache; once both such requests
\* have returned, a get for what was set last returns the value set last.
C18_ConcurrentMissesLastWriteWins ==
    /\ \A i \in TaskIds :
         tasks[i].overlap =>
           /\ ~tasks[i].hit
           /\ tasks[i].fetches >= 1
           /\ tasks[i].pc = "done" /\ tasks[i].got # <<>> =>
                /\ tasks[i].wrote # <<>>
                /\ tasks[i].wrote[1].value = ToDicts(tasks[i].got[1])
    /\ (\A i \in TaskIds :
          tasks[i].pc = "done" /\ tasks[i].overlap /\ tasks[i].wrote # <<>>) =>
         /\ lastWrite.task \in TaskIds
         /\ tasks[lastWrite.task].wrote =
              <<[languages |-> lastWrite.languages, value |-> lastWrite.value]>>
         /\ FacadeGet(facade, cache, store, now, lastWrite.video_id, lastWrite.languages,
                      Sound).result = <<lastWrite.value>>

\* two requests missed on one key together, were given different
\* transcripts and set them under the same languages, task 1 first
C18_Witness ==
    /\ \A i \in TaskIds :
         tasks[i].pc = "done" /\ tasks[i].overlap /\ tasks[i].wrote # <<>>
    /\ tasks[1].wrote[1].languages = tasks[2].wrote[1].languages
    /\ tasks[1].wrote[1].value # tasks[2].wrote[1].value
    /\ lastWrite.task = 2

\* C20 as stated: called alike, with no store failure and fewer keys than
\* max_size, the two backends return the same to every get and every size.
C20_BackendsAgree ==
    eq.op \in {"get", "size"} => eq.mem = eq.redis

\* C20: with a positive ttl the two backends return the same to every get,
\* and the same to every size made while the dict holds no entry past its
\* expiry; while it holds one, size of the dict is the larger.  The
\* unexpired entries of the dict are the entries of the server.
C20_BackendsAgreeOnLiveEntries ==
    ttl_seconds > 0 =>
      /\ eq.op = "get" => eq.mem = eq.redis
      /\ eq.op = "size" => eq.redis <= eq.mem /\ (~eq.stale => eq.mem = eq.redis)
      /\ {<<RedisPrefix \o cache[i].key, cache[i].value>> :
            i \in {j \in DOMAIN cache : now <= cache[j].expiry}}
           = {<<e.key, e.val[2]>> : e \in Live(store, now)}

\* a get for a key past its expiry in both returned None from both
C20_Witness ==
    /\ ttl_seconds > 0
    /\ eq.op = "get"
    /\ eq.stale
    /\ eq.mem = None
    /\ eq.redis = None
    /\ cache = <<>>

\* ------------------------------------------------ claims C21 .. C30

\* C21: a get of a key that was never written, or not written since it was
\* last removed (by clear, delete, eviction or an expired read), returns
\* None and leaves the dict as it was: same entries, same order.
C21_GetOfUnwrittenKeyIsAbsent ==
    /\ \A k \in Keys \ DOMAIN setExpiry :
          /\ MemGetResult(cache, now, k) = None
          /\ MemGetCache(cache, now, k) = cache
    /\ (last.op = "get" /\ last.how = "absent") => last.result = None

\* A get of a key that is not stored has returned None while other keys were
\* stored.
C21_Witness ==
    /\ last.op = "get"
    /\ last.how = "absent"
    /\ last.result = None
    /\ cache # <<>>
    /\ last.key \notin StoredKeys(cache)

\* C22: size() is the number of distinct keys stored; it is 0 for a new
\* cache, and a set of a key that is not stored, made below capacity, raises
\* it by exactly one.
C22_SizeCountsStoredKeys ==
    /\ MemSize(cache) = Cardinality(DOMAIN setExpiry)
    /\ MemSize(cache) = Cardinality(StoredKeys(cache))
    /\ last.op = "init" => MemSize(cache) = 0
    /\ last.op = "size" => last.result = Cardinality(DOMAIN setExpiry)
    /\ \A k \in Keys \ StoredKeys(cache), v \in Values :
          Cardinality(StoredKeys(cache)) < max_size =>
              MemSize(MemSet(cache, now, k, v, ttl_seconds, max_size))
                  = MemSize(cache) + 1

\* size() has returned 2 with two keys stored.
C22_Witness ==
    /\ last.op = "size"
    /\ last.result = 2
    /\ Cardinality(StoredKeys(cache)) = 2

\* C27: a set of a key that is already stored evicts no other key, also when
\* the dict holds max_size entries: every other entry stays, with its value,
\* its expiry and its place relative to the others.
C27_UpdateEvictsNothing ==
    /\ \A k \in StoredKeys(cache), v \in Values :
          LET c2 == MemSet(cache, now, k, v, ttl_seconds, max_size)
          IN  /\ StoredKeys(c2) = StoredKeys(cache)
              /\ Remove(c2, k) = Remove(cache, k)
    /\ (last.op = "set" /\ last.how = "update") =>
          /\ last.key \in StoredKeys(cache)
          /\ DOMAIN setExpiry = StoredKeys(cache)

\* A set has rewritten a stored key in a full cache of at least two keys.
C27_Witness ==
    /\ last.op = "set"
    /\ last.how = "update"
    /\ MemSize(cache) = max_size
    /\ max_size >= 2

\* Entries of c that a set of k into c at time t removes, k's own aside.
Evicted(c, t, k, v, ttl, n) ==
    {e \in EntrySet(c) : e.key # k /\ e.key \notin StoredKeys(MemSet(c, t, k, v, ttl, n))}

\* C28 as stated: a set never evicts a non-expired entry while an entry past
\* its expiry is still stored.
C28_NoFreshEvictionWhileExpiredStored ==
    \A k \in Keys, v \in Values :
        LET c2 == MemSet(cache, now, k, v, ttl_seconds, max_size)
        IN  (\E e \in Evicted(cache, now, k, v, ttl_seconds, max_size) : ~Expired(now, e))
                => ~\E x \in EntrySet(c2) : x.key # k /\ Expired(now, x)

\* C28, amended: eviction goes by recency alone.  A set of a key that is not
\* stored, into a full dict, evicts exactly the least recently used entry,
\* whether or not its expiry has passed, and keeps every other entry, expired
\* ones included.
C28_EvictionIgnoresExpiry ==
    \A k \in Keys \ StoredKeys(cache), v \in Values :
        (cache # <<>> /\ MemSize(cache) >= max_size) =>
            /\ Evicted(cache, now, k, v, ttl_seconds, max_size) = {cache[1]}
            /\ \A i \in 2..Len(cache) :
                  cache[i] \in EntrySet(MemSet(cache, now, k, v, ttl_seconds, max_size))

\* The dict is full, its least recently used entry is within its ttl and a
\* more recently used one is past it (a get moved it while it was fresh): a
\* set of a new key evicts the fresh entry and keeps the expired one.
C28_Witness ==
    /\ last.op = "tick"
    /\ MemSize(cache) = max_size
    /\ max_size >= 2
    /\ ~Expired(now, cache[1])
    /\ \E i \in 2..Len(cache) : Expired(now, cache[i])
    /\ \E k \in Keys \ StoredKeys(cache), v \in Values :
          LET c2 == MemSet(cache, now, k, v, ttl_seconds, max_size)
          IN  /\ cache[1] \notin EntrySet(c2)
              /\ \E x \in EntrySet(c2) : x.key # k /\ Expired(now, x)

\* C26: on an enabled facade with the memory backend cleanup_expired, at any
\* time, removes exactly the entries past their expiry, returns their number
\* and leaves the other entries as they were, in the same order; on a
\* disabled facade and on the Redis backend it returns 0 and changes
\* nothing.  It never raises.
C26_CleanupRemovesExactlyExpired ==
    /\ \A t \in {now, now + 1, now + 2} :
          LET out  == FacadeCleanupExpired(facade, cache, store, t)
              gone == {e \in EntrySet(cache) : t > e.expiry}
          IN  /\ ~out.raised
              /\ out.store = store
              /\ IF facade.enabled /\ facade.backend = "memory"
                 THEN /\ out.cache = SelectSeq(cache, LAMBDA e : e \notin gone)
                      /\ out.result = <<Cardinality(gone)>>
                 ELSE /\ out.cache = cache
                      /\ out.result = <<0>>
    /\ fcall.op = "cleanup_expired" =>
          /\ ~fcall.raised
          /\ fcall.changed => (facade.enabled /\ facade.backend = "memory"
                                 /\ fcall.result[1] > 0)

\* cleanup_expired has removed one entry and kept another, which is not
\* expired.
C26_Witness ==
    /\ fcall.op = "cleanup_expired"
    /\ fcall.result = <<1>>
    /\ fcall.changed
    /\ cache # <<>>
    /\ \A i \in DOMAIN cache : now <= cache[i].expiry

\* C30 as stated: backend_type is "memory" exactly when the facade holds a
\* MemoryCacheBackend and "redis" exactly when it holds a RedisCacheBackend,
\* whatever the settings and the state of the server.
C30_BackendTypeNamesBackend ==
    /\ facade.backend_type = "memory" <=> facade.backend = "memory"
    /\ facade.backend_type = "redis" <=> facade.backend = "redis"

\* C25: whatever the interleaving of the pieces of transcript, metadata,
\* stats and clear requests (each piece runs from one await to the next, and
\* every cache call lies inside one piece), the dict holds at most one entry
\* per key and at most max_size entries, and the size a stats or clear
\* request reports is at most max_size.
C25_InterleavingsKeepTheMapSound ==
    /\ Cardinality(StoredKeys(cache)) = Len(cache)
    /\ Len(cache) <= max_size
    /\ fcall.op \in {"stats", "clear"} => fcall.result[1] <= max_size
    /\ fcall.op = "clear" => fcall.result = <<0>>

\* A transcript request waits for its fallback and a metadata request for
\* its response, both begun after the last write; the cache is full and a
\* stats request has just been answered.
C25_Witness ==
    /\ \E i \in ServerTasks : tasks[i].pc = "fallback"
    /\ \E i \in MetaIds : mtasks[i].pc = "http" /\ mtasks[i].use_cache
    /\ Len(cache) = max_size
    /\ max_size >= 2
    /\ fcall.op = "stats"
    /\ fcall.result = <<max_size>>

\* The request of task i succeeded by fetching, its cache.set is the last
\* write, no clear was made since, and the entry it wrote is within its ttl.
Settled(i) ==
    LET task == tasks[i]
        k == MakeTranscriptKey(task.video_id, task.wrote[1].languages)
    IN  /\ task.pc = "done"
        /\ ~task.error
        /\ task.wrote # <<>>
        /\ lastWrite.task = i
        /\ k \in StoredKeys(cache)
        /\ now <= Entry(cache, k).expiry

\* C23 as stated: after a transcript request has succeeded, by direct fetch,
\* explicit translation or translation fallback, the same request made
\* within the ttl, with no clear or eviction in between, finds its
\* transcript in the cache (and so fetches nothing).
C23_RepeatIsServedFromCache ==
    \A i \in ServerTasks :
        Settled(i) =>
            LET task == tasks[i]
                out == FacadeGet(facade, cache, store, now, task.video_id,
                                 KeyLangs(task.languages, task.translate_to), Sound)
            IN  out.result = <<task.wrote[1].value>>

\* C24: with the cache enabled, when get_video_data has succeeded for a video
\* and is called again for it within the ttl (no other write and no clear in
\* between), the second call returns what the first returned, from the
\* cache, and makes no HTTP request; from the state the first call leaves,
\* the lookup of the second hits at every time up to the expiry.
C24_SecondMetadataCallIsCached ==
    \A i \in MetaIds :
        LET task == mtasks[i]
        IN  /\ task.again =>
                  /\ task.pc = "done"
                  /\ task.hit
                  /\ ~task.error
                  /\ task.requests = 0
                  /\ task.got = task.first
            /\ (task.pc = "done" /\ ~task.error /\ task.use_cache /\ task.at >= 0
                  /\ lastWrite.task = i) =>
                  \A t \in now..(task.at + ttl_seconds) :
                      MetaLookup(facade, cache, store, t, task.video_id, TRUE).result
                          = task.got

\* A second get_video_data for the same video, made a second after the first
\* one had fetched and cached the metadata, was served from the cache.
C24_Witness ==
    \E i \in MetaIds :
        /\ mtasks[i].again
        /\ mtasks[i].hit
        /\ mtasks[i].requests = 0
        /\ mtasks[i].got = <<[title |-> "T1"]>>
        /\ now > mtasks[i].at
        /\ mtasks[i].at >= 0

\* C29 as stated: two transcript requests that read or write the same cache
\* key make their upstream fetches with the same arguments (video id,
\* languages in priority order, translation target), so a request served
\* from the cache gets a transcript that was fetched with its own arguments.
C29_SharedKeySameFetchArguments ==
    \A i, j \in TaskIds :
        LET a == tasks[i]
            b == tasks[j]
        IN  (a.pc # "idle" /\ b.pc # "idle" /\ TaskKeys(a) \cap TaskKeys(b) # {}) =>
                FetchArguments(a.video_id, a.languages, a.translate_to)
                    = FetchArguments(b.video_id, b.languages, b.translate_to)

====
